---- MODULE Spec2Model ----
(***************************************************************************)
(* Model of the amortization calculator: the loans and transactions tables *)
(* of the SQLite database, the loan terms and fixed payment (Loan::new,    *)
(* Loan::calc_payment), payment application (commit_transaction) and the   *)
(* schedule projection of the command line front end (print_loan).         *)
(*                                                                         *)
(* f64 values are modelled as decimal fixed-point numbers with Scale units *)
(* per 1.0, rounded to the nearest unit after every multiplication and     *)
(* division, together with the IEEE special values NaN, +Inf and -Inf.     *)
(***************************************************************************)
EXTENDS Integers, Sequences, FiniteSets, TLC

VARIABLES loans, origin, transactions, alive, last, inflight

vars == <<loans, origin, transactions, alive, last, inflight>>

----------------------------------------------------------------------------
(* Bounds of the model *)

\* fixed-point units per 1.0 (the precision of the modelled f64)
Scale == 1000
\* rows of the loans and transactions tables together
MaxRows == 3
\* occurrences of -v on the command line
MaxVerbosity == 2

----------------------------------------------------------------------------
(* f64 arithmetic *)

Fin(n) == [k |-> "fin", v |-> n]
NaN == [k |-> "nan", v |-> 0]
PosInf == [k |-> "inf", v |-> 1]
NegInf == [k |-> "inf", v |-> -1]
Inf(s) == IF s > 0 THEN PosInf ELSE NegInf

IsFin(x) == x.k = "fin"
IsNaN(x) == x.k = "nan"

Abs(n) == IF n < 0 THEN -n ELSE n
Sgn(n) == IF n < 0 THEN -1 ELSE IF n > 0 THEN 1 ELSE 0

\* n / d rounded to the nearest integer, halves away from zero (d # 0)
RoundDiv(n, d) ==
    LET q == (2 * Abs(n) + Abs(d)) \div (2 * Abs(d))
    IN  IF Sgn(n) * Sgn(d) < 0 THEN -q ELSE q

\* the f64 of a whole number
Num(n) == Fin(n * Scale)
Zero == Fin(0)
One == Num(1)

FNeg(x) ==
    CASE x.k = "fin" -> Fin(-x.v)
      [] x.k = "inf" -> Inf(-x.v)
      [] OTHER -> NaN

FAdd(x, y) ==
    CASE IsNaN(x) \/ IsNaN(y) -> NaN
      [] IsFin(x) /\ IsFin(y) -> Fin(x.v + y.v)
      [] IsFin(x) -> y
      [] IsFin(y) -> x
      [] OTHER -> IF x.v = y.v THEN x ELSE NaN

FSub(x, y) == FAdd(x, FNeg(y))

FMul(x, y) ==
    CASE IsNaN(x) \/ IsNaN(y) -> NaN
      [] IsFin(x) /\ IsFin(y) -> Fin(RoundDiv(x.v * y.v, Scale))
      [] OTHER ->
           IF Sgn(x.v) * Sgn(y.v) = 0 THEN NaN ELSE Inf(Sgn(x.v) * Sgn(y.v))

FDiv(x, y) ==
    CASE IsNaN(x) \/ IsNaN(y) -> NaN
      [] IsFin(x) /\ IsFin(y) ->
           IF y.v = 0
             THEN IF x.v = 0 THEN NaN ELSE Inf(x.v)
             ELSE Fin(RoundDiv(x.v * Scale, y.v))
      [] IsFin(x) -> Zero
      [] IsFin(y) -> Inf(IF y.v < 0 THEN -x.v ELSE x.v)
      [] OTHER -> NaN

\* x > y: false when either side is NaN
FGt(x, y) ==
    CASE IsNaN(x) \/ IsNaN(y) -> FALSE
      [] IsFin(x) /\ IsFin(y) -> x.v > y.v
      [] IsFin(x) -> y.v < 0
      [] IsFin(y) -> x.v > 0
      [] OTHER -> x.v > y.v

\* x <= y: false when either side is NaN
FLe(x, y) ==
    CASE IsNaN(x) \/ IsNaN(y) -> FALSE
      [] OTHER -> ~FGt(x, y)

\* x >= y: false when either side is NaN
FGe(x, y) == FLe(y, x)

\* x.powf(e) for a whole exponent e and a finite base x > 0
RECURSIVE FPow(_, _)
FPow(x, e) ==
    IF e = 0 THEN One
    ELSE IF e > 0 THEN FMul(x, FPow(x, e - 1))
    ELSE FDiv(One, FPow(x, -e))

----------------------------------------------------------------------------
(* Loan model *)

calc_payment(principal, periods, apr) ==
    LET monthly_apr == FDiv(FDiv(apr, Num(100)), Num(12))
    IN  FMul(FDiv(monthly_apr,
                  FSub(One, FPow(FAdd(One, monthly_apr), -periods))),
             principal)

\* (mutant) the annual rate is applied to a single period
calc_interest_annual(loan) ==
    FMul(loan.balance, FDiv(loan.apr, Num(100)))

calc_interest_payment(loan) ==
    LET monthly_apr == FDiv(FDiv(loan.apr, Num(12)), Num(100))
    IN  FMul(loan.balance, monthly_apr)

LoanNew(name, principal, periods, apr, start_time) ==
    [name |-> name,
     payment |-> calc_payment(principal, periods, apr),
     balance |-> principal,
     periods |-> periods,
     apr |-> apr,
     start_time |-> start_time]

\* cli.rs: the create subcommand passes term * 12 as the number of periods
create_loan_from_args(name, balance, apr, term, start) ==
    LoanNew(name, balance, term * 12, apr, start)

----------------------------------------------------------------------------
(* Storage: the loans and transactions tables *)

\* SQLite binds a NaN double as NULL, which a REAL NOT NULL column rejects
NotNull(x) == ~IsNaN(x)

\* (mutant) a query that matches no row falls back to the first row
FirstRowOrAny(rows, name) ==
    IF \E i \in 1..Len(rows) : rows[i].name = name
      THEN CHOOSE i \in 1..Len(rows) :
             /\ rows[i].name = name
             /\ \A j \in 1..(i - 1) : rows[j].name # name
      ELSE IF Len(rows) > 0 THEN 1 ELSE 0

\* index of the first row of the loans table with this name, 0 when none
FirstRow(rows, name) ==
    IF \E i \in 1..Len(rows) : rows[i].name = name
      THEN CHOOSE i \in 1..Len(rows) :
             /\ rows[i].name = name
             /\ \A j \in 1..(i - 1) : rows[j].name # name
      ELSE 0

\* INSERT INTO transactions
InsertTransaction(db, t) ==
    [loans |-> db.loans, transactions |-> Append(db.transactions, t)]

\* (mutant) the update also recomputes the payment from the new balance
UpdateBalanceAndPayment(db, t) ==
    [loans |-> [i \in 1..Len(db.loans) |->
                  IF db.loans[i].name = t.name
                    THEN [db.loans[i] EXCEPT
                            !.balance = FSub(@, t.principal),
                            !.payment = calc_payment(FSub(db.loans[i].balance,
                                                          t.principal),
                                                     db.loans[i].periods,
                                                     db.loans[i].apr)]
                    ELSE db.loans[i]],
     transactions |-> db.transactions]

\* UPDATE loans SET balance = balance - $0 WHERE name = $1
UpdateBalance(db, t) ==
    [loans |-> [i \in 1..Len(db.loans) |->
                  IF db.loans[i].name = t.name
                    THEN [db.loans[i] EXCEPT !.balance = FSub(@, t.principal)]
                    ELSE db.loans[i]],
     transactions |-> db.transactions]

\* (mutant) both statements run outside a transaction: what ran before the
\* failing statement stays
TransactionBlockNoRollback(db, t, failAt) ==
    LET afterInsert == [loans |-> db.loans,
                        transactions |-> Append(db.transactions, t)]
        afterUpdate ==
            [loans |-> [i \in 1..Len(db.loans) |->
                          IF db.loans[i].name = t.name
                            THEN [db.loans[i] EXCEPT
                                    !.balance = FSub(@, t.principal)]
                            ELSE db.loans[i]],
             transactions |-> afterInsert.transactions]
    IN  CASE failAt = "insert" -> db
          [] failAt = "update" -> afterInsert
          [] OTHER -> afterUpdate

\* The database after the block that runs both statements in one SQLite
\* transaction; failAt names the statement whose execution fails ("none" when
\* all succeed). An error return drops the transaction, which rolls it back.
TransactionBlock(db, t, failAt) ==
    LET afterInsert == InsertTransaction(db, t)
        afterUpdate == UpdateBalance(afterInsert, t)
    IN  IF failAt = "none" /\ NotNull(t.principal) /\ NotNull(t.interest)
             /\ \A i \in 1..Len(afterUpdate.loans) :
                    NotNull(afterUpdate.loans[i].balance)
          THEN afterUpdate
          ELSE db

\* (mutant) the interest is not taken out of the principal part
SplitWholeAmountToPrincipal(loan, amount, extra) ==
    IF extra
      THEN [interest |-> Zero, principal |-> amount]
      ELSE [interest |-> calc_interest_payment(loan), principal |-> amount]

\* (mutant) the extra flag is ignored
SplitIgnoringExtra(loan, amount, extra) ==
    LET interest == calc_interest_payment(loan)
    IN  [interest |-> interest, principal |-> FSub(amount, interest)]

\* the interest and principal parts of a payment commit_transaction accepts
Split(loan, amount, extra) ==
    IF extra
      THEN [interest |-> Zero, principal |-> amount]
      ELSE LET interest == calc_interest_payment(loan)
           IN  [interest |-> interest, principal |-> FSub(amount, interest)]

\* (mutant) an amount equal to the payment is refused too
InsufficientOrEqual(loan, amount) == FGe(loan.payment, amount)

\* the minimum-payment check of a non-extra payment
Insufficient(loan, amount) == FGt(loan.payment, amount)

----------------------------------------------------------------------------
(* Schedule projection *)

\* (mutant) the month wraps around without the year moving on
NextMonthSameYear(date) ==
    IF date.mon + 1 = 12
      THEN [year |-> date.year, mon |-> date.mon + 1 - 12, mday |-> date.mday]
      ELSE [year |-> date.year, mon |-> date.mon + 1, mday |-> date.mday]

\* one calendar month later
NextMonth(date) ==
    IF date.mon + 1 = 12
      THEN [year |-> date.year + 1, mon |-> date.mon + 1 - 12, mday |-> date.mday]
      ELSE [year |-> date.year, mon |-> date.mon + 1, mday |-> date.mday]

\* (mutant) the principal part is not clamped to the balance
RECURSIVE ProjectNoClamp(_, _, _, _, _)
ProjectNoClamp(loan, i, balance, date, rows) ==
    IF i > loan.periods
      THEN [rows |-> rows, early |-> -1]
      ELSE LET monthly_apr == FDiv(FDiv(loan.apr, Num(12)), Num(100))
               interest == FMul(balance, monthly_apr)
               principal == FSub(loan.payment, interest)
               newBalance == FSub(balance, principal)
               newDate == NextMonth(date)
               row == [period |-> i, date |-> newDate, interest |-> interest,
                       principal |-> principal, balance |-> newBalance]
           IN  IF FLe(newBalance, Zero)
                 THEN [rows |-> Append(rows, row), early |-> loan.periods - i]
                 ELSE ProjectNoClamp(loan, i + 1, newBalance, newDate,
                                     Append(rows, row))

\* (mutant) the loop does not stop when the balance is paid off
RECURSIVE ProjectNoBreak(_, _, _, _, _)
ProjectNoBreak(loan, i, balance, date, rows) ==
    IF i > loan.periods
      THEN [rows |-> rows, early |-> -1]
      ELSE LET monthly_apr == FDiv(FDiv(loan.apr, Num(12)), Num(100))
               interest == FMul(balance, monthly_apr)
               computed == FSub(loan.payment, interest)
               principal == IF FGt(computed, balance) THEN balance ELSE computed
               newBalance == FSub(balance, principal)
               newDate == NextMonth(date)
               row == [period |-> i, date |-> newDate, interest |-> interest,
                       principal |-> principal, balance |-> newBalance]
           IN  ProjectNoBreak(loan, i + 1, newBalance, newDate, Append(rows, row))

\* the loop of print_loan from period i on: the periods computed and the
\* number of months the early-payoff message reports (-1: no message)
RECURSIVE Project(_, _, _, _, _)
Project(loan, i, balance, date, rows) ==
    IF i > loan.periods
      THEN [rows |-> rows, early |-> -1]
      ELSE LET monthly_apr == FDiv(FDiv(loan.apr, Num(12)), Num(100))
               interest == FMul(balance, monthly_apr)
               computed == FSub(loan.payment, interest)
               principal == IF FGt(computed, balance) THEN balance ELSE computed
               newBalance == FSub(balance, principal)
               newDate == NextMonth(date)
               row == [period |-> i, date |-> newDate, interest |-> interest,
                       principal |-> principal, balance |-> newBalance]
           IN  IF FLe(newBalance, Zero)
                 THEN [rows |-> Append(rows, row), early |-> loan.periods - i]
                 ELSE Project(loan, i + 1, newBalance, newDate, Append(rows, row))

\* print_loan: nothing is projected without -v
print_loan(loan, verbosity) ==
    IF verbosity > 0
      THEN Project(loan, 1, loan.balance,
                   [year |-> loan.start_time.year, mon |-> loan.start_time.mon,
                    mday |-> 1], <<>>)
      ELSE [rows |-> <<>>, early |-> -1]

----------------------------------------------------------------------------
(* Inputs *)

Names == {"car", "home"}
Principals == {Num(1000)}
Aprs == {Num(0), Num(12)}
Terms == {-1, 0, 1}
StartTimes == {[year |-> 116, mon |-> 10, mday |-> 15]}
FixedAmounts == {Num(-10000)}
Verbosities == 0..MaxVerbosity
Failures == {"none", "insert", "update", "commit"}

\* amounts tried on a payment by name: the fixed ones and, when a loan of that
\* name is stored, its payment, one unit less than its payment, and its balance
AmountsFor(name) ==
    LET row == FirstRow(loans, name)
    IN  FixedAmounts
          \cup (IF row # 0 /\ IsFin(loans[row].payment)
                  THEN {loans[row].payment, Fin(loans[row].payment.v - 1)}
                  ELSE {})
          \cup (IF row # 0 /\ IsFin(loans[row].balance)
                  THEN {loans[row].balance}
                  ELSE {})

----------------------------------------------------------------------------
(* State *)

NoSchedule == [rows |-> <<>>, early |-> -1]

\* the record of the last call: the loan it built or loaded, how it ended
\* ("ok", "err": an error value returned to the caller, "exit": the process
\* was terminated inside the call), on which condition, and what it printed;
\* the arguments are kept for the calls that got as far as reading them
Call(op, name, amount, extra, verbosity, loan, outcome, error, schedule) ==
    [op |-> op, name |-> name, amount |-> amount, extra |-> extra,
     verbosity |-> verbosity, loan |-> loan, outcome |-> outcome,
     error |-> error, schedule |-> schedule]

NoLoan == [name |-> "", payment |-> Zero, balance |-> Zero, periods |-> 0,
           apr |-> Zero, start_time |-> [year |-> 0, mon |-> 0, mday |-> 1]]

NoCall(op) == Call(op, "", Zero, FALSE, 0, NoLoan, "ok", "none", NoSchedule)

\* the processes that may run the pay subcommand at the same time
Procs == {"p1", "p2"}

\* a pay process that has not loaded its loan, or has ended
Idle == [loaded |-> FALSE, name |-> "", amount |-> Zero, extra |-> FALSE,
         loan |-> NoLoan]

Init ==
    /\ loans = <<>>
    /\ origin = <<>>
    /\ transactions = <<>>
    /\ alive = TRUE
    /\ last = NoCall("init")
    /\ inflight = [p \in Procs |-> Idle]

\* a new process is started after the previous one was terminated
Launch ==
    /\ ~alive
    /\ alive' = TRUE
    /\ last' = NoCall("launch")
    /\ UNCHANGED <<loans, origin, transactions, inflight>>

\* create subcommand: create_loan_from_args, then create_loan
create_loan(name, balance, apr, term, start) ==
    LET loan == create_loan_from_args(name, balance, apr, term, start)
        stored == NotNull(loan.payment) /\ NotNull(loan.balance) /\ NotNull(loan.apr)
    IN  /\ alive
        /\ Len(loans) + Len(transactions) < MaxRows
        /\ IF stored
             THEN /\ loans' = Append(loans, loan)
                  /\ origin' = Append(origin, [principal |-> balance,
                                               since |-> Len(transactions)])
                  /\ alive' = TRUE
                  /\ last' = Call("create", name, Zero, FALSE, 0, loan,
                                  "ok", "none", NoSchedule)
             ELSE /\ alive' = FALSE
                  /\ last' = Call("create", name, Zero, FALSE, 0, loan,
                                  "exit", "storage", NoSchedule)
                  /\ UNCHANGED <<loans, origin>>
        /\ UNCHANGED <<transactions, inflight>>

\* pay subcommand
commit_transaction(name, amount, extra, failAt) ==
    LET row == FirstRow(loans, name)
        loan == loans[row]
        split == Split(loan, amount, extra)
        t == [name |-> name, principal |-> split.principal,
              interest |-> split.interest]
        db == [loans |-> loans, transactions |-> transactions]
        after == TransactionBlock(db, t, failAt)
    IN  /\ alive
        /\ Len(loans) + Len(transactions) < MaxRows
        /\ UNCHANGED <<origin, inflight>>
        /\ IF row = 0
             THEN /\ last' = Call("pay", name, Zero, FALSE, 0, NoLoan,
                                  "err", "notfound", NoSchedule)
                  /\ UNCHANGED <<loans, transactions, alive>>
             ELSE IF ~extra /\ Insufficient(loan, amount)
               THEN /\ alive' = FALSE
                    /\ last' = Call("pay", name, amount, extra, 0, loan,
                                    "exit", "insufficient", NoSchedule)
                    /\ UNCHANGED <<loans, transactions>>
               ELSE /\ loans' = after.loans
                    /\ transactions' = after.transactions
                    /\ alive' = TRUE
                    /\ last' = IF after = db
                                 THEN Call("pay", "", Zero, FALSE, 0, NoLoan,
                                           "err", "storage", NoSchedule)
                                 ELSE Call("pay", name, amount, extra, 0, loan,
                                           "ok", "none", NoSchedule)

\* query of one loan by name: query_loan, then print_loan
query_and_print(name, verbosity) ==
    LET row == FirstRow(loans, name)
    IN  /\ alive
        /\ UNCHANGED <<loans, origin, transactions, alive, inflight>>
        /\ IF row = 0
             THEN last' = Call("print", name, Zero, FALSE, 0, NoLoan,
                               "err", "notfound", NoSchedule)
             ELSE last' = Call("print", name, Zero, FALSE, verbosity, loans[row],
                               "ok", "none", print_loan(loans[row], verbosity))

Next ==
    \/ Launch
    \/ \E name \in Names, balance \in Principals, apr \in Aprs, term \in Terms,
          start \in StartTimes : create_loan(name, balance, apr, term, start)
    \/ \E name \in Names, extra \in BOOLEAN, failAt \in Failures :
          \E amount \in AmountsFor(name) :
             commit_transaction(name, amount, extra, failAt)
    \/ \E name \in Names, verbosity \in Verbosities :
          query_and_print(name, verbosity)

Spec == Init /\ [][Next]_vars

----------------------------------------------------------------------------
(* Two pay processes on one database *)

\* the pay processes that have loaded their loan and not yet committed
Loaded == {p \in Procs : inflight[p].loaded}

\* commit_transaction up to the transaction block, in process p: the loan is
\* read with a query of its own, before the SQLite transaction is begun
pay_load(p, name, amount, extra) ==
    LET row == FirstRow(loans, name)
        loan == loans[row]
    IN  /\ ~inflight[p].loaded
        /\ Len(loans) + Len(transactions) + Cardinality(Loaded) < MaxRows
        /\ UNCHANGED <<loans, origin, transactions, alive>>
        /\ IF row = 0
             THEN /\ last' = Call("pay", name, Zero, FALSE, 0, NoLoan,
                                  "err", "notfound", NoSchedule)
                  /\ UNCHANGED inflight
             ELSE IF ~extra /\ Insufficient(loan, amount)
               THEN /\ last' = Call("pay", name, amount, extra, 0, loan,
                                    "exit", "insufficient", NoSchedule)
                    /\ UNCHANGED inflight
               ELSE /\ inflight' = [inflight EXCEPT ![p] =
                                      [loaded |-> TRUE, name |-> name,
                                       amount |-> amount, extra |-> extra,
                                       loan |-> loan]]
                    /\ UNCHANGED last

\* the transaction block of commit_transaction in process p, with the split
\* computed from the loan as it was loaded
pay_commit(p, failAt) ==
    LET call == inflight[p]
        split == Split(call.loan, call.amount, call.extra)
        t == [name |-> call.name, principal |-> split.principal,
              interest |-> split.interest]
        db == [loans |-> loans, transactions |-> transactions]
        after == TransactionBlock(db, t, failAt)
    IN  /\ inflight[p].loaded
        /\ inflight' = [inflight EXCEPT ![p] = Idle]
        /\ loans' = after.loans
        /\ transactions' = after.transactions
        /\ last' = IF after = db
                     THEN Call("pay", "", Zero, FALSE, 0, NoLoan,
                               "err", "storage", NoSchedule)
                     ELSE Call("pay", call.name, call.amount, call.extra, 0,
                               call.loan, "ok", "none", NoSchedule)
        /\ UNCHANGED <<origin, alive>>

ConcNext ==
    \/ \E name \in Names, balance \in Principals, apr \in Aprs, term \in Terms,
          start \in StartTimes : create_loan(name, balance, apr, term, start)
    \/ \E p \in Procs, name \in Names, extra \in BOOLEAN :
          \E amount \in AmountsFor(name) : pay_load(p, name, amount, extra)
    \/ \E p \in Procs, failAt \in Failures : pay_commit(p, failAt)

SpecConc == Init /\ [][ConcNext]_vars

----------------------------------------------------------------------------
(* Properties *)

Rows == 1..Len(loans)

\* the transaction the last step recorded
Recorded == transactions'[Len(transactions')]

\* a transaction was appended by the step
Applied ==
    /\ Len(transactions') = Len(transactions) + 1
    /\ \A k \in 1..Len(transactions) : transactions'[k] = transactions[k]

\* the sum of the principal parts of the transactions of this name recorded
\* after the first `since` ones
RECURSIVE PaidSince(_, _)
PaidSince(name, since) ==
    IF since >= Len(transactions) THEN Zero
    ELSE FAdd(IF transactions[since + 1].name = name
                THEN transactions[since + 1].principal ELSE Zero,
              PaidSince(name, since + 1))

\* C1: a non-extra payment on a stored loan that storage does not fail is
\* applied exactly when amount >= loan.payment (an equal amount is applied);
\* a payment refused as insufficient records no transaction and changes no loan.
C1_MinimumPayment ==
    [][(last'.op = "pay" /\ ~last'.extra /\ last'.error \in {"none", "insufficient"})
         => /\ Applied <=> FGe(last'.amount, last'.loan.payment)
            /\ Applied <=> last'.error = "none"
            /\ last'.error = "insufficient"
                 => transactions' = transactions /\ loans' = loans]_vars

\* a non-extra payment of exactly loan.payment was applied
C1_Witness ==
    /\ last.op = "pay" /\ ~last.extra /\ last.outcome = "ok"
    /\ last.amount = last.loan.payment
    /\ Len(transactions) > 0

\* C2: the stored balance of every loan is its principal at creation minus the
\* principal parts of the transactions recorded for its name since, also after
\* payments whose storage failed at the insert, the update or the commit.
C2_BalanceMatchesLog ==
    \A i \in Rows :
        loans[i].balance =
            FSub(origin[i].principal, PaidSince(loans[i].name, origin[i].since))

\* a payment failed in storage after another one had been recorded
C2_Witness ==
    /\ last.op = "pay" /\ last.error = "storage"
    /\ Len(transactions) > 0
    /\ \E i \in Rows : loans[i].balance # origin[i].principal

\* C3: the stored balance of every loan is >= 0.
C3_BalanceNonNegative == \A i \in Rows : FGe(loans[i].balance, Zero)

\* C4: the principal and interest parts of every transaction recorded add up
\* to the amount paid.
C4_SplitAddsUp ==
    [][(last'.op = "pay" /\ last'.outcome = "ok")
         => Applied /\ FAdd(Recorded.principal, Recorded.interest) = last'.amount]_vars

\* a non-extra payment with a non-zero interest part was recorded
C4_Witness ==
    /\ last.op = "pay" /\ last.outcome = "ok" /\ ~last.extra
    /\ Len(transactions) > 0
    /\ transactions[Len(transactions)].interest # Zero

\* C5: an extra payment is never refused as insufficient, and when it is
\* applied the transaction has interest 0 and principal = amount and the
\* balance of the loan goes down by the amount.
C5_ExtraAllPrincipal ==
    [][(last'.op = "pay" /\ last'.extra)
         => /\ last'.outcome = "ok"
            /\ Applied
            /\ Recorded.interest = Zero
            /\ Recorded.principal = last'.amount
            /\ Len(loans') = Len(loans)
            /\ \A i \in Rows :
                 loans[i].name = last'.name
                   => loans'[i].balance = FSub(loans[i].balance, last'.amount)]_vars

\* an extra payment below the loan's payment was applied to a loan with a
\* non-zero rate
C5_Witness ==
    /\ last.op = "pay" /\ last.extra /\ last.outcome = "ok"
    /\ FGt(last.loan.payment, last.amount)
    /\ FGt(last.loan.apr, Zero)
    /\ Len(transactions) > 0

\* C6: no operation changes the name, payment, apr or periods of a stored loan.
C6_TermsFixed ==
    [][/\ Len(loans') >= Len(loans)
       /\ \A i \in Rows :
            /\ loans'[i].name = loans[i].name
            /\ loans'[i].payment = loans[i].payment
            /\ loans'[i].apr = loans[i].apr
            /\ loans'[i].periods = loans[i].periods]_vars

\* the schedule of a loan was projected after a payment had changed its balance
C6_Witness ==
    /\ last.op = "print" /\ Len(last.schedule.rows) > 0
    /\ \E i \in Rows :
         /\ loans[i].name = last.loan.name
         /\ loans[i].balance # origin[i].principal
         /\ loans[i].payment = last.loan.payment

\* C7: an error condition of the core (insufficient payment, loan not found)
\* is returned to the caller, which is still running afterwards.
C7_ErrorsReturned ==
    last.error \in {"insufficient", "notfound"} => last.outcome = "err" /\ alive

\* C8: with apr = 0, principal > 0 and periods > 0 the payment computed is
\* principal / periods, a positive value.
C8_ZeroRatePayment ==
    (last.op = "create" /\ last.loan.apr = Zero /\ last.loan.periods > 0)
      => /\ last.loan.payment = FDiv(last.loan.balance, Num(last.loan.periods))
         /\ FGt(last.loan.payment, Zero)

\* C9: creating a loan with periods <= 0 ends in an error and stores no loan:
\* no stored loan has periods <= 0.
C9_InvalidTerm ==
    /\ \A i \in Rows : loans[i].periods > 0
    /\ (last.op = "create" /\ last.loan.periods <= 0) => last.outcome # "ok"

\* C10: a projection emits no period with a principal part <= 0, its balance
\* never goes up from one period to the next, and a period whose computed
\* principal part (payment - interest) is <= 0 ends it with the degenerate
\* amortization report.
C10_DegenerateDetected ==
    last.op = "print" =>
      LET rows == last.schedule.rows
      IN  \A k \in 1..Len(rows) :
            /\ FGt(rows[k].principal, Zero)
            /\ FLe(rows[k].balance,
                   IF k = 1 THEN last.loan.balance ELSE rows[k - 1].balance)
            /\ FLe(FSub(last.loan.payment, rows[k].interest), Zero)
                 => k = Len(rows) /\ last.error = "degenerate"

\* C11: a projection emits the periods 1, 2, ... in order, none beyond
\* loan.periods, and none after the first one whose balance is <= 0.
C11_ProjectionBounded ==
    last.op = "print" =>
      LET rows == last.schedule.rows
      IN  /\ \A k \in 1..Len(rows) :
               /\ rows[k].period = k
               /\ k <= last.loan.periods
               /\ k < Len(rows) => ~FLe(rows[k].balance, Zero)
          /\ Len(rows) > 0 => Len(rows) <= last.loan.periods

\* a projection stopped on a paid-off balance with periods remaining
C11_Witness ==
    /\ last.op = "print"
    /\ Len(last.schedule.rows) > 0
    /\ Len(last.schedule.rows) < last.loan.periods
    /\ FLe(last.schedule.rows[Len(last.schedule.rows)].balance, Zero)

\* C12: a payment to, or a query of, a name no stored loan has returns an
\* error or absence value to the caller, projects nothing, records no
\* transaction and changes no loan.
C12_NotFound ==
    [][(/\ last'.op \in {"pay", "print"}
        /\ last'.name \in Names
        /\ ~\E i \in Rows : loans[i].name = last'.name)
         => /\ last'.error = "notfound"
            /\ last'.outcome = "err"
            /\ alive'
            /\ last'.schedule = NoSchedule
            /\ transactions' = transactions
            /\ loans' = loans]_vars

\* a payment named a loan that is not stored while another loan is
C12_Witness ==
    /\ last.op = "pay" /\ last.error = "notfound"
    /\ Len(loans) > 0
    /\ ~\E i \in Rows : loans[i].name = last.name

\* the sum of the principal parts of the first n periods of a projection
RECURSIVE SumPrincipal(_, _)
SumPrincipal(rows, n) ==
    IF n = 0 THEN Zero ELSE FAdd(SumPrincipal(rows, n - 1), rows[n].principal)

\* C13: the projection of a loan with periods > 0 to which no payment was
\* applied has principal parts that add up to the principal of the loan and
\* ends with a balance of exactly 0.
C13_RoundTrip ==
    (/\ last.op = "print" /\ last.verbosity > 0
     /\ transactions = <<>>
     /\ last.loan.periods > 0)
      => LET rows == last.schedule.rows
         IN  /\ Len(rows) > 0
             /\ SumPrincipal(rows, Len(rows)) = last.loan.balance
             /\ rows[Len(rows)].balance = Zero

\* C14: the interest of a period is 0 when the balance it is computed from is
\* <= 0, in the transaction of a non-extra payment and in a projection.
C14_NoInterestWithoutBalance ==
    /\ (/\ last.op = "pay" /\ last.outcome = "ok" /\ ~last.extra
        /\ FLe(last.loan.balance, Zero))
         => transactions[Len(transactions)].interest = Zero
    /\ last.op = "print"
         => LET rows == last.schedule.rows
            IN  \A k \in 1..Len(rows) :
                  FLe(IF k = 1 THEN last.loan.balance ELSE rows[k - 1].balance,
                      Zero)
                    => rows[k].interest = Zero

\* C15: no two stored loans have the same name.
C15_UniqueNames ==
    \A i \in Rows : \A j \in Rows : i # j => loans[i].name # loans[j].name

\* the balance a period of the last projection starts from
BalanceBefore(k) ==
    IF k = 1 THEN last.loan.balance ELSE last.schedule.rows[k - 1].balance

\* the smaller of two finite values
FMin(x, y) == IF FGt(x, y) THEN y ELSE x

\* C16: in a projection that starts from a balance >= 0, a period whose
\* payment covers its interest has principal = min(payment - interest,
\* balance): the principal is at most the balance, the new balance is >= 0,
\* and it is exactly 0 when payment - interest exceeds the balance.
C16_PrincipalClamped ==
    (last.op = "print" /\ FGe(last.loan.balance, Zero))
      => LET rows == last.schedule.rows
         IN  \A k \in 1..Len(rows) :
               FGe(last.loan.payment, rows[k].interest)
                 => LET computed == FSub(last.loan.payment, rows[k].interest)
                    IN  /\ rows[k].principal = FMin(computed, BalanceBefore(k))
                        /\ FLe(rows[k].principal, BalanceBefore(k))
                        /\ FGe(rows[k].balance, Zero)
                        /\ FGt(computed, BalanceBefore(k))
                             => rows[k].balance = Zero

\* a projection whose last period would have paid more than the balance left
C16_Witness ==
    /\ last.op = "print" /\ FGt(last.loan.balance, Zero)
    /\ Len(last.schedule.rows) > 1
    /\ LET n == Len(last.schedule.rows)
       IN  /\ FGt(FSub(last.loan.payment, last.schedule.rows[n].interest),
                  BalanceBefore(n))
           /\ FGt(BalanceBefore(n), Zero)
           /\ last.schedule.rows[n].balance = Zero

\* C17: an applied non-extra payment records interest = balance * (apr / 100
\* / 12) on the balance the loan had before it and principal = amount -
\* interest, and lowers the stored balance by that principal, unclamped; on a
\* balance of 12000 at apr 0 an amount of 1000 splits into interest 0 and
\* principal 1000.
C17_RegularSplit ==
    [][(last'.op = "pay" /\ last'.outcome = "ok" /\ ~last'.extra)
         => LET loan == last'.loan
                interest == FMul(loan.balance,
                                 FDiv(FDiv(loan.apr, Num(100)), Num(12)))
                principal == FSub(last'.amount, interest)
            IN  /\ \E i \in Rows : loans[i] = loan
                /\ Applied
                /\ Recorded.interest = interest
                /\ Recorded.principal = principal
                /\ Len(loans') = Len(loans)
                /\ \A i \in Rows :
                     loans[i].name = last'.name
                       => loans'[i].balance = FSub(loans[i].balance, principal)
                /\ Split([NoLoan EXCEPT !.balance = Num(12000)], Num(1000), FALSE)
                     = [interest |-> Zero, principal |-> Num(1000)]]_vars

\* a non-extra payment with a non-zero interest part took the balance of its
\* loan below 0
C17_Witness ==
    /\ last.op = "pay" /\ last.outcome = "ok" /\ ~last.extra
    /\ Len(transactions) > 0
    /\ transactions[Len(transactions)].interest # Zero
    /\ FGt(transactions[Len(transactions)].principal, last.loan.balance)
    /\ \E i \in Rows :
         /\ loans[i].name = last.name
         /\ loans[i].balance = FSub(last.loan.balance,
                                    transactions[Len(transactions)].principal)
         /\ FGt(Zero, loans[i].balance)

\* the date a period of the last projection follows
DateBefore(k) ==
    IF k = 1
      THEN [year |-> last.loan.start_time.year, mon |-> last.loan.start_time.mon]
      ELSE [year |-> last.schedule.rows[k - 1].date.year,
            mon |-> last.schedule.rows[k - 1].date.mon]

\* C18: every period of a projection is dated the 1st of the month after the
\* date before it: the month stays in 0..11, month 11 is followed by month 0
\* of the next year and every other month by the next month of the same year.
C18_MonthlyDates ==
    last.op = "print" =>
      \A k \in 1..Len(last.schedule.rows) :
        LET date == last.schedule.rows[k].date
            before == DateBefore(k)
        IN  /\ date.mday = 1
            /\ date.mon \in 0..11
            /\ IF before.mon = 11
                 THEN date.mon = 0 /\ date.year = before.year + 1
                 ELSE date.mon = before.mon + 1 /\ date.year = before.year

\* a projection ran from one year into the next
C18_Witness ==
    /\ last.op = "print"
    /\ \E k \in 2..Len(last.schedule.rows) :
         /\ last.schedule.rows[k - 1].date.mon = 11
         /\ last.schedule.rows[k].date.mon = 0
         /\ last.schedule.rows[k].date.year = last.schedule.rows[k - 1].date.year + 1

\* C19: a projection that stops at period i on a balance <= 0 reports
\* loan.periods - i months, the number of scheduled periods not emitted; the
\* report is made only for i < loan.periods, so the number reported is >= 1.
C19_EarlyPayoffReport ==
    last.op = "print" =>
      LET rows == last.schedule.rows
          stopped == Len(rows) > 0 /\ FLe(rows[Len(rows)].balance, Zero)
      IN  /\ (stopped /\ Len(rows) < last.loan.periods)
               => last.schedule.early = last.loan.periods - Len(rows)
          /\ last.schedule.early # -1
               => /\ stopped
                  /\ last.schedule.early = last.loan.periods - Len(rows)
                  /\ Len(rows) < last.loan.periods
                  /\ last.schedule.early >= 1

\* C20: with two pay processes interleaved, the interest of every non-extra
\* transaction committed is the monthly interest on the balance the loan has
\* in storage when the transaction is committed.
C20_NoStaleSplit ==
    [][(last'.op = "pay" /\ last'.outcome = "ok" /\ ~last'.extra /\ Applied)
         => \E i \in Rows :
              /\ loans[i].name = last'.name
              /\ Recorded.interest =
                   FMul(loans[i].balance,
                        FDiv(FDiv(loans[i].apr, Num(12)), Num(100)))]_vars

====
